---- MODULE Spec2Model ----
(***************************************************************************)
(* ResearchOracle paper proxy (src/main.py): two routes that fetch a paper *)
(* from PubMed/PMC or arXiv and return one Paper record.                    *)
(*                                                                         *)
(* Text is a sequence of one-character strings.  An optional XML element   *)
(* is a sequence of length 0 (absent) or 1 (present, holding its text).    *)
(* Each request is a coroutine; an action is the code between two points   *)
(* at which the coroutine is suspended on the event loop.  The Entrez      *)
(* calls (esummary, elink) are blocking calls, so they start and end       *)
(* inside one action.  authors and url take no part in any property        *)
(* checked here and are left out of the record.                            *)
(***************************************************************************)
EXTENDS Integers, Sequences, FiniteSets, TLC

\* ------------------------------------------------------------------ bounds
NReq == 2
MaxLen == 4

\* --------------------------------------------------------------- constants
PdfCap == 100000

Reqs == 1 .. NReq

VARIABLES
  NCBI_KEY,      \* environment: Unset, "" or a key
  ARXIV_PDF_ENV, \* environment: Unset or a value
  upstream,      \* what the upstream services hold for the requested id
  active,        \* the requests the clients may send
  req,           \* per request: position, locals, calls issued, response
  txt,           \* clean: the argument
  out,           \* clean: results of applying clean once and twice
  cpc            \* clean: position of the caller

vars == <<NCBI_KEY, ARXIV_PDF_ENV, upstream, active, req, txt, out, cpc>>

\* ----------------------------- UTILITIES ------------------------------
\* Characters; Ws are those str.strip() strips and \s matches.
Ws == {" ", "\n", "\t"}
Chars == {"a", "b"} \cup Ws

RECURSIVE LStrip(_)
LStrip(s) == IF s = <<>> THEN <<>>
             ELSE IF Head(s) \in Ws THEN LStrip(Tail(s)) ELSE s

RECURSIVE RStrip(_)
RStrip(s) == IF s = <<>> THEN <<>>
             ELSE IF s[Len(s)] \in Ws THEN RStrip(SubSeq(s, 1, Len(s) - 1)) ELSE s

\* str.strip()
Strip(s) == RStrip(LStrip(s))

\* re.sub(r"\s+", " ", s): every maximal run of whitespace becomes one space.
RECURSIVE ReSubWs(_)
ReSubWs(s) == IF s = <<>> THEN <<>>
              ELSE IF Head(s) \in Ws THEN <<" ">> \o ReSubWs(LStrip(s))
              ELSE <<Head(s)>> \o ReSubWs(Tail(s))

cleanNoStrip(s) == ReSubWs(s)

clean(s) == ReSubWs(Strip(s))

\* sep.join(parts)
RECURSIVE Join(_, _)
Join(parts, sep) == IF parts = <<>> THEN <<>>
                    ELSE IF Len(parts) = 1 THEN parts[1]
                    ELSE parts[1] \o sep \o Join(Tail(parts), sep)

\* s[:n]
Prefix(s, n) == IF Len(s) > n THEN SubSeq(s, 1, n) ELSE s

RECURSIVE CleanAll(_)
CleanAll(ts) == IF ts = <<>> THEN <<>> ELSE <<clean(Head(ts))>> \o CleanAll(Tail(ts))

\* An optional value: absent, or present.
Opt(S) == {<<>>} \cup {<<x>> : x \in S}

\* ------------------------------------------------------------------ CONFIG
Unset == "<unset>"
DefaultKey == "d0a28a2ac77f0b03135b097bd0dcab612108"

\* os.getenv(name, default)
getenv(value, default) == IF value = Unset THEN default ELSE value

\* str.lower() on the values the environment takes here
lower(s) == IF s = "YES" THEN "yes" ELSE s

Entrez_api_key_no_default == getenv(NCBI_KEY, "")

Entrez_api_key == getenv(NCBI_KEY, DefaultKey)

ARXIV_PDF_always == TRUE

ARXIV_PDF == lower(getenv(ARXIV_PDF_ENV, "no")) = "yes"

KeyEnvs == {Unset, "", "key"}
PdfEnvs == {Unset, "no", "YES"}

\* --------------------------------------------------- upstream payloads
\* A PubMed efetch document, as BeautifulSoup sees it: the texts of its
\* title elements and AbstractText elements in document order, and its
\* PubDate / BookDate elements (each absent or present; Year, Month and Day
\* each absent or present).
TitleTexts == {<<" ">>, <<"a", " ", "\n", "b">>}
AbstractLists == {<<>>, << <<" ">> >>, << <<"a", " ", " ", "b">> >>,
                  << <<"\n">>, <<"a">> >>}
DateElems == [Year : Opt({<<"2">>}), Month : Opt({<<"M">>}), Day : Opt({<<"5">>})]
BookDates == {[Year |-> << <<"1">> >>, Month |-> <<>>, Day |-> <<>>]}
PubmedDocs == [titles : Opt(TitleTexts), abstracts : AbstractLists,
               pubDate : Opt(DateElems), bookDate : Opt(BookDates)]
\* The body of a non-2xx answer parsed as XML: none of the elements.
ErrorDoc == [titles |-> <<>>, abstracts |-> <<>>, pubDate |-> <<>>, bookDate |-> <<>>]

\* An arXiv Atom feed as feedparser sees it: its entries.
Entries == {[title |-> <<" ">>, published |-> <<"2">>, summary |-> <<"a">>],
            [title |-> <<" ", "a", " ", " ", "b", "\n">>, published |-> <<"2">>,
             summary |-> <<"a", "\n", "b">>]}
Feeds == Opt(Entries)
ErrorFeed == <<>>

\* httpx: the call raises (network failure, timeout) or returns a response.
HttpOutcomes == {"neterr", "ok", "non2xx"}

\* Entrez.read(Entrez.esummary(...)): raises, or a list of document
\* summaries, each with or without a Title.
EsummaryOutcomes == {[exc |-> TRUE, val |-> <<>>]} \cup
  {[exc |-> FALSE, val |-> v] : v \in {<<>>, <<[Title |-> <<>>]>>,
      <<[Title |-> << <<>> >>]>>, <<[Title |-> << <<" ">> >>]>>,
      <<[Title |-> << <<"a", " ", "b">> >>]>>}}

\* Entrez.read(Entrez.elink(...)): raises, or record[0]["LinkSetDb"] with
\* no link or one.
ElinkOutcomes == {[exc |-> TRUE, val |-> <<>>]} \cup
  {[exc |-> FALSE, val |-> v] : v \in {<<>>, <<"PMC1">>}}

\* The PMC efetch answer: the paragraphs of its body element, if any.
PmcBodies == Opt({<<>>, << <<"a", " ", " ", "b">>, <<"b", "\n">> >>})
PmcOutcomes == {[net |-> "neterr", body |-> <<>>], [net |-> "non2xx", body |-> <<>>]} \cup
  {[net |-> "ok", body |-> b] : b \in PmcBodies}

\* The PDF answer: the call raises, a status that is not 200, or 200 with
\* a PDF whose text extraction raises or yields a text.
PdfOutcomes == {[net |-> "neterr", exc |-> FALSE, text |-> <<>>],
                [net |-> "non200", exc |-> FALSE, text |-> <<>>],
                [net |-> "ok", exc |-> TRUE, text |-> <<>>],
                [net |-> "ok", exc |-> FALSE, text |-> <<"a", "\n", "\n", "b", " ">>]}

\* ------------------------------------------------------------------ MODELS
Placeholder == <<"(", "N", "o", " ", "a", "b", "s", "t", "r", "a", "c", "t", " ",
                 "a", "v", "a", "i", "l", "a", "b", "l", "e", ".", ")">>

\* class Paper, full_text defaulting to ""
Paper(title, published, abstract, full_text) ==
  [title |-> title, published |-> published, abstract |-> abstract,
   full_text |-> full_text]

NoPaper == Paper(<<>>, <<>>, <<>>, <<>>)

\* A request nobody has sent yet.  status 0: no response yet.
Idle == [pc |-> "idle", route |-> "none", slept |-> FALSE, calls |-> <<>>,
         outs |-> <<>>, inflight |-> 0, soup |-> ErrorDoc, status |-> 0,
         paper |-> NoPaper]

\* ------------------------------------------------------- calls, responses
\* One outbound call is issued: cli.get(...) or an Entrez call.
IssueTwice(q, call) ==
  [q EXCEPT !.calls = Append(Append(@, call), call), !.inflight = @ + 2]

Issue(q, call) == [q EXCEPT !.calls = Append(@, call), !.inflight = @ + 1]

\* The call ends, with an outcome.
Reply(q, outcome) == [q EXCEPT !.outs = Append(@, outcome), !.inflight = @ - 1]

\* An exception nobody catches: FastAPI answers 500.
Raise(q) == [q EXCEPT !.pc = "done", !.status = 500]

\* raise HTTPException(404, ...)
NotFound(q) == [q EXCEPT !.pc = "done", !.status = 404]

\* return Paper(...)
Return(q, paper) == [q EXCEPT !.pc = "done", !.status = 200, !.paper = paper]

\* ----------------------------- PubMed / PMC ---------------------------
\* soup.find([...]) found no title element
NeedsEsummary(soup) == soup.titles = <<>>

\* es[0].get("Title") if es else None
EsTitle(es) == IF es.val # <<>> THEN es.val[1].Title ELSE <<>>

\* What esummary answered, for the record of the call.
EsKind(es) == IF es.exc THEN "raise"
              ELSE IF es.val = <<>> THEN "empty"
              ELSE IF es.val[1].Title = <<>> THEN "nokey"
              ELSE IF es.val[1].Title[1] = <<>> THEN "emptytitle"
              ELSE IF clean(es.val[1].Title[1]) = <<>> THEN "blanktitle"
              ELSE "title"

ElKind(el) == IF el.exc THEN "raise" ELSE IF el.val = <<>> THEN "nolink" ELSE "link"

\* title_tag after lines 59-63, as the text it holds: a found element is
\* true whatever its text, an esummary Title only when it is not "".
TitleTagEsAnyString(soup, es) ==
  IF soup.titles # <<>> THEN <<Head(soup.titles)>>
  ELSE EsTitle(es)

TitleTag(soup, es) ==
  IF soup.titles # <<>> THEN <<Head(soup.titles)>>
  ELSE IF EsTitle(es) # <<>> /\ EsTitle(es)[1] # <<>> THEN EsTitle(es)
  ELSE <<>>

\* line 73
AbstractFirstOnly(soup) ==
  LET a == IF soup.abstracts = <<>> THEN <<>> ELSE clean(Head(soup.abstracts))
  IN  IF a = <<>> THEN Placeholder ELSE a

Abstract(soup) ==
  LET a == clean(Join(soup.abstracts, <<" ">>))
  IN  IF a = <<>> THEN Placeholder ELSE a

\* lines 75-79
Published(soup) ==
  LET pub   == IF soup.pubDate # <<>> THEN soup.pubDate ELSE soup.bookDate
      year  == IF pub # <<>> /\ pub[1].Year # <<>> THEN pub[1].Year[1] ELSE <<>>
      month == IF pub # <<>> /\ pub[1].Month # <<>> THEN pub[1].Month[1] ELSE <<>>
      day   == IF pub # <<>> /\ pub[1].Day # <<>> THEN pub[1].Day[1] ELSE <<>>
  IN  Strip(Join(<<year, month, day>>, <<" ">>))

\* lines 90-92
PmcFullText(body) ==
  IF body = <<>> THEN <<>> ELSE Join(CleanAll(body[1]), <<"\n", "\n">>)

\* get_pubmed_full from the efetch answer to its next suspension or its end:
\* net is the efetch outcome, es and el what esummary and elink answer if
\* they are called.
get_pubmed_full(q, net, es, el) ==
  LET q1 == Reply(q, net)
  IN  IF net = "neterr" THEN Raise(q1)
      ELSE
        LET soup == IF net = "ok" THEN upstream.pubmed ELSE ErrorDoc
            q2   == [q1 EXCEPT !.soup = soup]
            q3   == IF NeedsEsummary(soup)
                    THEN Reply(Issue(q2, "esummary"), EsKind(es)) ELSE q2
            tag  == TitleTag(soup, es)
        IN  IF NeedsEsummary(soup) /\ es.exc THEN Raise(q3)
            ELSE IF tag = <<>> THEN NotFound(q3)
            ELSE
              LET paper == Paper(clean(tag[1]), Published(soup), Abstract(soup), <<>>)
                  q4    == Reply(Issue(q3, "elink"), ElKind(el))
              IN  IF el.exc THEN Raise(q4)
                  ELSE IF el.val = <<>> THEN Return(q4, paper)
                  ELSE [Issue(q4, "pmc_efetch") EXCEPT !.pc = "pmc", !.paper = paper]

\* get_pubmed_full from the PMC efetch answer to its end.
get_pubmed_full_pmc(q, o) ==
  LET q1 == Reply(q, IF o.net = "ok" /\ o.body = <<>> THEN "nobody" ELSE o.net)
  IN  IF o.net = "neterr" THEN Raise(q1)
      ELSE Return(q1, [q1.paper EXCEPT !.full_text = PmcFullText(o.body)])

\* ----------------------------- arXiv -----------------------------------
\* get_arxiv_meta from the query answer on, then get_arxiv_full up to the
\* PDF request.
get_arxiv_full(q, net) ==
  LET q1 == Reply(q, net)
  IN  IF net = "neterr" THEN Raise(q1)
      ELSE
        LET feed == IF net = "ok" THEN upstream.arxiv ELSE ErrorFeed
        IN  IF feed = <<>> THEN NotFound(q1)
            ELSE
              LET e     == feed[1]
                  paper == Paper(clean(e.title), e.published, clean(e.summary), <<>>)
              IN  IF ~ARXIV_PDF THEN Return(q1, paper)
                  ELSE [Issue(q1, "pdf") EXCEPT !.pc = "pdf", !.paper = paper]

\* arxiv_pdf_text from the PDF answer on, then the end of get_arxiv_full.
\* (pdfminer is taken to be installed when ARXIV_PDF is on.)
arxiv_pdf_text(q, o) ==
  LET q1 == Reply(q, IF o.net = "ok" /\ o.exc THEN "raise" ELSE o.net)
  IN  IF o.net = "neterr" THEN Raise(q1)
      ELSE IF o.net = "non200" THEN Return(q1, q1.paper)
      ELSE IF o.exc THEN Raise(q1)
      ELSE Return(q1, [q1.paper EXCEPT !.full_text = Prefix(clean(o.text), PdfCap)])

\* ----------------------------- ROUTES ----------------------------------
cfgvars == <<NCBI_KEY, ARXIV_PDF_ENV, upstream, active>>
cleanvars == <<txt, out, cpc>>

\* GET /paper/pubmed/{pmid}, up to the sleep or the efetch request
paper_pubmed(r) ==
  /\ r \in active
  /\ req[r].pc = "idle"
  /\ LET q == [req[r] EXCEPT !.route = "pubmed"]
     IN  req' = [req EXCEPT ![r] =
                   IF Entrez_api_key = "" THEN [q EXCEPT !.pc = "sleep"]
                   ELSE [Issue(q, "efetch") EXCEPT !.pc = "efetch"]]
  /\ UNCHANGED <<cfgvars, cleanvars>>

\* asyncio.sleep(0.4) is over
sleep_done(r) ==
  /\ req[r].pc = "sleep"
  /\ req' = [req EXCEPT ![r] =
               [Issue([req[r] EXCEPT !.slept = TRUE], "efetch") EXCEPT !.pc = "efetch"]]
  /\ UNCHANGED <<cfgvars, cleanvars>>

\* the efetch answer arrives
pubmed_meta_reply(r) ==
  /\ req[r].pc = "efetch"
  /\ \E net \in HttpOutcomes, es \in EsummaryOutcomes, el \in ElinkOutcomes :
       req' = [req EXCEPT ![r] = get_pubmed_full(req[r], net, es, el)]
  /\ UNCHANGED <<cfgvars, cleanvars>>

\* the PMC efetch answer arrives
pmc_reply(r) ==
  /\ req[r].pc = "pmc"
  /\ \E o \in PmcOutcomes :
       req' = [req EXCEPT ![r] = get_pubmed_full_pmc(req[r], o)]
  /\ UNCHANGED <<cfgvars, cleanvars>>

\* GET /paper/arxiv/{arxiv_id}, up to the query request
paper_arxiv(r) ==
  /\ r \in active
  /\ req[r].pc = "idle"
  /\ req' = [req EXCEPT ![r] =
               [Issue([req[r] EXCEPT !.route = "arxiv"], "query") EXCEPT !.pc = "query"]]
  /\ UNCHANGED <<cfgvars, cleanvars>>

\* the query answer arrives
arxiv_meta_reply(r) ==
  /\ req[r].pc = "query"
  /\ \E net \in HttpOutcomes :
       req' = [req EXCEPT ![r] = get_arxiv_full(req[r], net)]
  /\ UNCHANGED <<cfgvars, cleanvars>>

\* the PDF answer arrives
pdf_reply(r) ==
  /\ req[r].pc = "pdf"
  /\ \E o \in PdfOutcomes :
       req' = [req EXCEPT ![r] = arxiv_pdf_text(req[r], o)]
  /\ UNCHANGED <<cfgvars, cleanvars>>

\* ------------------------------------------------------ a caller of clean
Strings(n) == UNION {[1 .. k -> Chars] : k \in 0 .. n}

clean_once ==
  /\ cpc = "in"
  /\ out' = <<clean(txt)>>
  /\ cpc' = "once"
  /\ UNCHANGED <<cfgvars, req, txt>>

clean_twice ==
  /\ cpc = "once"
  /\ out' = Append(out, clean(out[1]))
  /\ cpc' = "twice"
  /\ UNCHANGED <<cfgvars, req, txt>>

\* --------------------------------------------------------- specifications
Upstreams == [pubmed : PubmedDocs, arxiv : Feeds]

\* One request, whatever the upstream holds.
Init ==
  /\ NCBI_KEY \in KeyEnvs
  /\ ARXIV_PDF_ENV \in PdfEnvs
  /\ upstream \in Upstreams
  /\ active = {1}
  /\ req = [r \in Reqs |-> Idle]
  /\ txt = <<>> /\ out = <<>> /\ cpc = "off"

Next ==
  \E r \in Reqs :
    \/ paper_pubmed(r)
    \/ sleep_done(r)
    \/ pubmed_meta_reply(r)
    \/ pmc_reply(r)
    \/ paper_arxiv(r)
    \/ arxiv_meta_reply(r)
    \/ pdf_reply(r)

Spec == Init /\ [][Next]_vars

\* Concurrent requests for one paper that both services hold.
HeldDoc == [titles |-> << <<"a", " ", "\n", "b">> >>,
            abstracts |-> << <<"\n">>, <<"a">> >>,
            pubDate |-> <<[Year |-> << <<"2">> >>, Month |-> <<>>, Day |-> << <<"5">> >>]>>,
            bookDate |-> <<>>]
HeldFeed == <<[title |-> <<" ", "a", " ", " ", "b", "\n">>, published |-> <<"2">>,
               summary |-> <<"a", "\n", "b">>]>>

InitConc ==
  /\ NCBI_KEY \in KeyEnvs
  /\ ARXIV_PDF_ENV \in PdfEnvs
  /\ upstream = [pubmed |-> HeldDoc, arxiv |-> HeldFeed]
  /\ active = Reqs
  /\ req = [r \in Reqs |-> Idle]
  /\ txt = <<>> /\ out = <<>> /\ cpc = "off"

SpecConc == InitConc /\ [][Next]_vars

InitClean ==
  /\ NCBI_KEY = Unset
  /\ ARXIV_PDF_ENV = Unset
  /\ upstream = [pubmed |-> ErrorDoc, arxiv |-> ErrorFeed]
  /\ active = {}
  /\ req = [r \in Reqs |-> Idle]
  /\ txt \in Strings(MaxLen) /\ out = <<>> /\ cpc = "in"

NextClean == clean_once \/ clean_twice

SpecClean == InitClean /\ [][NextClean]_vars

\* ------------------------------------------------------------ properties
Done(r) == req[r].pc = "done"

\* The outcome of the request's call of this kind; "nocall" if it made
\* none, "pending" while the call is in flight.
OutcomeOf(q, call) ==
  IF \E i \in 1 .. Len(q.calls) : q.calls[i] = call
  THEN LET i == CHOOSE j \in 1 .. Len(q.calls) : q.calls[j] = call
       IN  IF i <= Len(q.outs) THEN q.outs[i] ELSE "pending"
  ELSE "nocall"

Called(q, call) == OutcomeOf(q, call) # "nocall"

HasInk(t) == \E i \in 1 .. Len(t) : t[i] \notin Ws

NoDoubleWs(t) == \A i \in 1 .. Len(t) - 1 : ~(t[i] \in Ws /\ t[i + 1] \in Ws)

NoEdgeWs(t) == t = <<>> \/ (t[1] \notin Ws /\ t[Len(t)] \notin Ws)

\* The primary metadata fetch succeeded: a 2xx answer that held the record.
PrimaryOk(q) ==
  \/ q.route = "pubmed" /\ OutcomeOf(q, "efetch") = "ok" /\ Called(q, "elink")
  \/ q.route = "arxiv" /\ OutcomeOf(q, "query") = "ok" /\ q.status # 404

\* The secondary fetch failed, or found nothing.
SecondaryFailed(q) ==
  \/ OutcomeOf(q, "elink") \in {"raise", "nolink"}
  \/ OutcomeOf(q, "pmc_efetch") \in {"neterr", "non2xx", "nobody"}
  \/ OutcomeOf(q, "pdf") \in {"neterr", "non200", "raise"}

\* C1 (as claimed): whenever the primary metadata fetch of a request
\* succeeded and its secondary fetch failed or found nothing, the request
\* ends with a Paper record (200) whose full_text is the empty string.
C1_SecondaryNeverRaised ==
  \A r \in Reqs :
    (Done(r) /\ PrimaryOk(req[r]) /\ SecondaryFailed(req[r]))
      => (req[r].status = 200 /\ req[r].paper.full_text = <<>>)

PrimaryOutcome(q) ==
  IF q.route = "pubmed" THEN OutcomeOf(q, "efetch") ELSE OutcomeOf(q, "query")

\* C2 (as claimed): a request whose primary metadata call ended in a
\* network failure, a timeout or a non-2xx status ends in a server-side
\* failure (500), never in a Paper record and never in 404.
C2_PrimaryFailureIsServerError ==
  \A r \in Reqs :
    (Done(r) /\ PrimaryOutcome(req[r]) \in {"neterr", "non2xx"})
      => req[r].status = 500

\* C3 (as claimed): no request issues more than two outbound calls.
C3_AtMostTwoCalls ==
  \A r \in Reqs : Len(req[r].calls) <= 2

PubmedCallOrders ==
  {<<>>, <<"efetch">>, <<"efetch", "esummary">>, <<"efetch", "elink">>,
   <<"efetch", "esummary", "elink">>, <<"efetch", "elink", "pmc_efetch">>,
   <<"efetch", "esummary", "elink", "pmc_efetch">>}

ArxivCallOrders == {<<"query">>, <<"query", "pdf">>}

\* C3 (amended): a PubMed request issues at most four outbound calls, in
\* the order efetch, esummary, elink, PMC efetch, each at most once; an
\* arXiv request at most two, the query then the PDF; and a request never
\* has more than one call in flight.
C3_CallsSequentialAndBounded ==
  \A r \in Reqs :
    /\ req[r].inflight \in {0, 1}
    /\ req[r].route = "pubmed" => req[r].calls \in PubmedCallOrders
    /\ req[r].route = "arxiv" => req[r].calls \in ArxivCallOrders
    /\ req[r].route = "none" => req[r].calls = <<>>

C3_Witness ==
  \E r \in Reqs :
    /\ Done(r)
    /\ req[r].calls = <<"efetch", "esummary", "elink", "pmc_efetch">>
    /\ req[r].status = 200

\* The efetch answer of request r has been parsed.
Parsed(r) ==
  /\ req[r].route = "pubmed"
  /\ OutcomeOf(req[r], "efetch") \in {"ok", "non2xx"}

\* C4: once the efetch XML is parsed, esummary has been called exactly when
\* the XML holds no title element; and when esummary answers without a
\* Title (no summary, no Title key, or an empty Title) the request ends in
\* 404 with no Paper record.
C4_EsummaryFallback ==
  \A r \in Reqs :
    Parsed(r) =>
      /\ Called(req[r], "esummary") <=> (req[r].soup.titles = <<>>)
      /\ OutcomeOf(req[r], "esummary") \in {"empty", "nokey", "emptytitle"}
           => (Done(r) /\ req[r].status = 404 /\ req[r].paper = NoPaper)

C4_Witness ==
  \E r \in Reqs :
    /\ Parsed(r)
    /\ OutcomeOf(req[r], "efetch") = "ok"
    /\ req[r].soup.titles = <<>>
    /\ OutcomeOf(req[r], "esummary") = "emptytitle"
    /\ req[r].status = 404

\* C5 (as claimed): every Paper record returned has a non-empty title.
C5_TitleNonEmpty ==
  \A r \in Reqs : req[r].status = 200 => req[r].paper.title # <<>>

\* C6 (as claimed): a PubMed record made from an efetch XML with at least
\* one AbstractText element has an abstract that is neither empty nor the
\* placeholder, whatever the elements' text.
C6_AbstractNeverPlaceholder ==
  \A r \in Reqs :
    (req[r].status = 200 /\ req[r].route = "pubmed" /\ req[r].soup.abstracts # <<>>)
      => (req[r].paper.abstract # <<>> /\ req[r].paper.abstract # Placeholder)

\* C6 (amended): the abstract of a PubMed record is never empty, and it is
\* not the placeholder when some AbstractText element holds a character
\* that is not whitespace (unless the elements spell the placeholder).
C6_AbstractWhenText ==
  \A r \in Reqs :
    (req[r].status = 200 /\ req[r].route = "pubmed") =>
      /\ req[r].paper.abstract # <<>>
      /\ ( /\ \E i \in 1 .. Len(req[r].soup.abstracts) : HasInk(req[r].soup.abstracts[i])
           /\ clean(Join(req[r].soup.abstracts, <<" ">>)) # Placeholder )
           => req[r].paper.abstract # Placeholder

C6_Witness ==
  \E r \in Reqs :
    /\ req[r].status = 200 /\ req[r].route = "pubmed"
    /\ Len(req[r].soup.abstracts) = 2
    /\ ~HasInk(req[r].soup.abstracts[1])
    /\ HasInk(req[r].soup.abstracts[2])
    /\ req[r].paper.abstract = <<"a">>

\* The Year, Month and Day texts that are present, in that order.
PresentParts(d) == d.Year \o d.Month \o d.Day

\* C7 (as claimed): published is the present Year, Month and Day texts of
\* PubDate (else BookDate) joined by single spaces, with no two adjacent
\* spaces, and empty when none is present.
C7_PublishedJoinsPresent ==
  \A r \in Reqs :
    (req[r].status = 200 /\ req[r].route = "pubmed") =>
      LET pub == IF req[r].soup.pubDate # <<>> THEN req[r].soup.pubDate
                 ELSE req[r].soup.bookDate
          want == IF pub = <<>> THEN <<>> ELSE Join(PresentParts(pub[1]), <<" ">>)
      IN  req[r].paper.published = want /\ NoDoubleWs(req[r].paper.published)

C9_NoPdfWhenFlagOff ==
  \A r \in Reqs :
    (ARXIV_PDF_ENV \notin {"yes", "YES"} /\ req[r].route = "arxiv") =>
      /\ ~Called(req[r], "pdf")
      /\ req[r].status = 200 => req[r].paper.full_text = <<>>

C9_Witness ==
  \E r \in Reqs :
    /\ ARXIV_PDF_ENV = "no"
    /\ req[r].route = "arxiv"
    /\ req[r].status = 200
    /\ req[r].paper.title # <<>>

\* C10: clean(s) has no two adjacent whitespace characters and no leading
\* or trailing whitespace, and cleaning it again leaves it as it is.
C10_CleanNormalIdempotent ==
  /\ cpc \in {"once", "twice"} => (NoDoubleWs(out[1]) /\ NoEdgeWs(out[1]))
  /\ cpc = "twice" => out[2] = out[1]

C10_Witness ==
  /\ cpc = "twice"
  /\ txt = <<"\t", "a", "\n", " ">>
  /\ out = << <<"a">>, <<"a">> >>

====
